---- MODULE Spec2Model ----
(***************************************************************************)
(* A model of src/regex.py: the RegexFSM constructor, which builds state   *)
(* objects and appends them to the start state's next_states list, and     *)
(* check_string/_match, the recursive backtracking matcher, modelled as an *)
(* explicit call stack with one frame per call of _match.                  *)
(*                                                                         *)
(* Characters are code points (naturals).  Python indexes from 0; the      *)
(* model keeps 0-based indexes i, j and reads sequences through PyIndex.   *)
(***************************************************************************)
EXTENDS Integers, Sequences, FiniteSets, TLC

VARIABLES
    objs,      \* the heap: objs[id] is a State object; id 1 is the class-level StartState
    fsms,      \* the RegexFSM instances constructed so far, in order
    built,     \* history: per RegexFSM, the heap size before it was built and its graph when finished
    lastCtor,  \* history: the argument of the last constructor call and the heap size before it
    raised,    \* the exception raised by the last operation, NoError if it returned
    call,      \* the check_string call in progress
    stack,     \* the frames of _match, innermost last
    ret,       \* the value the innermost finished _match returned, <<>> if none is pending
    done,      \* history: the last completed check_string call and its result
    prev,      \* history: the completed check_string call before that one
    nctor,     \* number of constructor calls made
    ncalls     \* number of check_string calls made

vars == <<objs, fsms, built, lastCtor, raised, call, stack, ret, done, prev, nctor, ncalls>>

-----------------------------------------------------------------------------
(* Bounds *)

MaxPatLen == 3      \* longest pattern of MatchSpec
MaxInLen == 3       \* longest input of MatchSpec
MaxBuildLen == 3    \* longest pattern of the last constructor call of BuildSpec
MaxBuilds == 2      \* constructor calls in a behaviour of BuildSpec
MaxSessIn == 1      \* longest input of Spec
MaxCtor == 3        \* constructor calls in a behaviour of Spec
MaxCalls == 2       \* check_string calls in a behaviour of Spec

-----------------------------------------------------------------------------
(* Tokens *)

Dot == 46    \* "."
Star == 42   \* "*"
Plus == 43   \* "+"

\* str.isascii() of a one-character string: its code point is below 128
IsAscii(c) == c < 128

Strs(A, n) == UNION {[1..k -> A] : k \in 0..n}

\* 97 "a", 98 "b", 7 BEL (ASCII, not printable), 233 e-acute (not ASCII)
MatchPatterns == Strs({97, 98, Dot, Star, Plus}, MaxPatLen)
MatchInputs == Strs({97, 98, Star}, MaxInLen)
BuildPatterns == Strs({97, Dot, Star, Plus, 7, 233}, MaxBuildLen)
\* "a", "a*", "a+", "*"
SessPatterns == {<<97>>, <<97, Star>>, <<97, Plus>>, <<Star>>}
\* "a", "+", "a*", "a" e-acute
PriorPatterns == {<<97>>, <<Plus>>, <<97, Star>>, <<97, 233>>}
SessInputs == Strs({97}, MaxSessIn)

-----------------------------------------------------------------------------
(* State objects *)

NewState(kind, sym, chk, nxt) ==
    [kind |-> kind, curr_sym |-> sym, checking_state |-> chk, next_states |-> nxt]

StartState == NewState("Start", 0, 0, <<>>)
TerminationState == NewState("Term", 0, 0, <<>>)
DotState == NewState("Dot", 0, 0, <<>>)
AsciiState(symbol) == NewState("Ascii", symbol, 0, <<>>)
StarState(checking_state) == NewState("Star", 0, checking_state, <<checking_state>>)
PlusState(checking_state) == NewState("Plus", 0, checking_state, <<checking_state>>)

\* AttributeError("Character is not supported")
AttributeError ==
    [type |-> "AttributeError",
     msg |-> <<67, 104, 97, 114, 97, 99, 116, 101, 114, 32, 105, 115, 32, 110, 111,
               116, 32, 115, 117, 112, 112, 111, 114, 116, 101, 100>>]
IndexError == [type |-> "IndexError", msg |-> <<>>]
NoError == [type |-> "none", msg |-> <<>>]

\* the result of __init_next_state for an unsupported token
Unsupported == NewState("raise", 0, 0, <<>>)

InitNextState_latin1(next_token, prev_state, tmp_next_state) ==
    CASE next_token = Dot -> DotState
      [] next_token = Star -> StarState(tmp_next_state)
      [] next_token = Plus -> PlusState(tmp_next_state)
      [] next_token < 256 -> AsciiState(next_token)
      [] OTHER -> Unsupported

InitNextState_printable(next_token, prev_state, tmp_next_state) ==
    CASE next_token = Dot -> DotState
      [] next_token = Star -> StarState(tmp_next_state)
      [] next_token = Plus -> PlusState(tmp_next_state)
      [] next_token \in 32..126 -> AsciiState(next_token)
      [] OTHER -> Unsupported

InitNextState_prev(next_token, prev_state, tmp_next_state) ==
    CASE next_token = Dot -> DotState
      [] next_token = Star -> StarState(prev_state)
      [] next_token = Plus -> PlusState(prev_state)
      [] IsAscii(next_token) -> AsciiState(next_token)
      [] OTHER -> Unsupported

InitNextState(next_token, prev_state, tmp_next_state) ==
    CASE next_token = Dot -> DotState
      [] next_token = Star -> StarState(tmp_next_state)
      [] next_token = Plus -> PlusState(tmp_next_state)
      [] IsAscii(next_token) -> AsciiState(next_token)
      [] OTHER -> Unsupported

\* allocate object new and append it to objs[prev_state].next_states
AppendNext(o, prev_state, new) ==
    LET id == Len(o) + 1
    IN  Append([o EXCEPT ![prev_state].next_states = Append(@, id)], new)

\* the loop of __init__ from token k on; prev_state is never reassigned
RECURSIVE InitLoop(_, _, _, _, _)
InitLoop(o, regex_expr, k, prev_state, tmp_next_state) ==
    IF k > Len(regex_expr)
    THEN [objs |-> AppendNext(o, prev_state, TerminationState), raised |-> NoError]
    ELSE LET new == InitNextState(regex_expr[k], prev_state, tmp_next_state)
         IN  IF new.kind = "raise"
             THEN [objs |-> o, raised |-> AttributeError]
             ELSE InitLoop(AppendNext(o, prev_state, new), regex_expr, k + 1,
                           prev_state, Len(o) + 1)

\* RegexFSM.curr_state is evaluated once, in the class body: object 1
ClassCurrState == 1

RegexFSMInit(o, regex_expr) ==
    InitLoop(o, regex_expr, 1, ClassCurrState, ClassCurrState)

Range(seq) == {seq[n] : n \in 1..Len(seq)}

\* the ids reachable from the ids in seen through next_states
RECURSIVE ReachFrom(_, _)
ReachFrom(o, seen) ==
    LET more == seen \cup UNION {Range(o[x].next_states) : x \in seen}
    IN  IF more = seen THEN seen ELSE ReachFrom(o, more)

\* the state graph of RegexFSM f: every state reachable from its curr_state,
\* with its next_states list
GraphOf(o, root) == [x \in ReachFrom(o, {root}) |-> o[x].next_states]

NoCall == [active |-> FALSE, fsm |-> 0, p |-> <<>>, s |-> <<>>]
NoResult == [valid |-> FALSE, fsm |-> 0, p |-> <<>>, s |-> <<>>, result |-> FALSE]

Idle == ~call.active /\ stack = <<>>

\* RegexFSM(regex_expr)
Construct(regex_expr) ==
    /\ Idle
    /\ LET r == RegexFSMInit(objs, regex_expr)
       IN  /\ objs' = r.objs
           /\ raised' = r.raised
           /\ lastCtor' = [arg |-> regex_expr, before |-> Len(objs)]
           /\ IF r.raised = NoError
              THEN /\ fsms' = Append(fsms, [regex_expr |-> regex_expr,
                                            curr_state |-> ClassCurrState])
                   /\ built' = Append(built, [before |-> Len(objs),
                                              graph |-> GraphOf(r.objs, ClassCurrState)])
              ELSE UNCHANGED <<fsms, built>>
    /\ nctor' = nctor + 1
    /\ UNCHANGED <<call, stack, ret, done, prev, ncalls>>

-----------------------------------------------------------------------------
(* check_string and _match *)

\* seq[idx] in Python; -1 stands for the IndexError of an index out of range
PyIndex(seq, idx) ==
    IF idx \in 0..(Len(seq) - 1) THEN seq[idx + 1]
    ELSE IF idx \in (0 - Len(seq))..(0 - 1) THEN seq[Len(seq) + idx + 1]
    ELSE 0 - 1

\* the indexes at which a frame reads p: p[j] always, p[j+1] behind j + 1 < len(p)
PReads(p, j) == {j} \cup (IF j + 1 < Len(p) THEN {j + 1} ELSE {})

SReads_unguarded(s, i) == {i}

\* the indexes at which a frame reads s: s[i] behind i < len(s)
SReads(s, i) == IF i < Len(s) THEN {i} ELSE {}

NextIsQuant(p, j) == (j + 1) \in PReads(p, j) /\ PyIndex(p, j + 1) \in {Star, Plus}

FirstMatch_literal(s, i, p, j) ==
    \E r \in SReads(s, i) : PyIndex(p, j) = PyIndex(s, r)

FirstMatch(s, i, p, j) ==
    \E r \in SReads(s, i) : PyIndex(p, j) \in {PyIndex(s, r), Dot}

FrameRaises(s, i, p, j) ==
    \/ \E r \in PReads(p, j) : PyIndex(p, r) = 0 - 1
    \/ \E r \in SReads(s, i) : PyIndex(s, r) = 0 - 1

BaseResult_prefix(s, i) == i <= Len(s)

\* line 141
BaseResult(s, i) == i = Len(s)

Frame(i, j) == [i |-> i, j |-> j, pc |-> "enter"]

StarZeroCall_quant(i, j) == Frame(i, j + 1)

StarZeroCall(i, j) == Frame(i, j + 2)

StarMoreCall_stay(i, j) == Frame(i, j)

StarMoreCall(i, j) == Frame(i + 1, j)
PlusMoreCall(i, j) == Frame(i + 1, j)
PlusSkipCall(i, j) == Frame(i + 1, j + 2)
PlainCall(i, j) == Frame(i + 1, j + 1)

RegexExprOf_class(f) == fsms[Len(fsms)].regex_expr

\* self.regex_expr
RegexExprOf(f) == fsms[f].regex_expr

Top == stack[Len(stack)]
Pop == SubSeq(stack, 1, Len(stack) - 1)
Entering == stack # <<>> /\ Top.pc = "enter" /\ ret = <<>>
Returned(pc) == stack # <<>> /\ Top.pc = pc /\ ret # <<>>

Return(v) == stack' = Pop /\ ret' = <<v>> /\ raised' = raised
Recurse(pc, frame) ==
    /\ stack' = Append([stack EXCEPT ![Len(stack)].pc = pc], frame)
    /\ ret' = <<>>
    /\ raised' = raised
Raise(e) == stack' = <<>> /\ ret' = <<>> /\ raised' = e

Frozen == UNCHANGED <<objs, fsms, built, lastCtor, nctor, ncalls>>

\* fsm.check_string(input_str)
CheckString(f, input_str) ==
    /\ Idle
    /\ call' = [active |-> TRUE, fsm |-> f, p |-> RegexExprOf(f), s |-> input_str]
    /\ stack' = <<Frame(0, 0)>>
    /\ ret' = <<>>
    /\ raised' = NoError
    /\ ncalls' = ncalls + 1
    /\ UNCHANGED <<objs, fsms, built, lastCtor, done, prev, nctor>>

\* lines 140-141
MatchBase ==
    /\ Entering /\ Top.j = Len(call.p)
    /\ Return(BaseResult(call.s, Top.i))
    /\ UNCHANGED <<call, done, prev>> /\ Frozen

\* a frame with j # len(p): an out-of-range read raises IndexError out of
\* check_string, otherwise the frame goes on with body
MatchStep(body) ==
    /\ Entering /\ Top.j # Len(call.p)
    /\ IF FrameRaises(call.s, Top.i, call.p, Top.j) THEN Raise(IndexError) ELSE body
    /\ UNCHANGED <<call, done, prev>> /\ Frozen

\* lines 147-149
MatchStar ==
    /\ Entering /\ Top.j # Len(call.p)
    /\ NextIsQuant(call.p, Top.j) /\ PyIndex(call.p, Top.j + 1) = Star
    /\ MatchStep(Recurse("star_zero", StarZeroCall(Top.i, Top.j)))

\* lines 149-153, after _match(s, i, p, j+2) returned
MatchStarZeroRet ==
    /\ Returned("star_zero")
    /\ IF ret[1] THEN Return(TRUE)
       ELSE IF FirstMatch(call.s, Top.i, call.p, Top.j)
            THEN Recurse("star_more", StarMoreCall(Top.i, Top.j))
            ELSE Return(FALSE)
    /\ UNCHANGED <<call, done, prev>> /\ Frozen

\* lines 151-153, after _match(s, i+1, p, j) returned
MatchStarMoreRet ==
    /\ Returned("star_more")
    /\ Return(ret[1])
    /\ UNCHANGED <<call, done, prev>> /\ Frozen

\* lines 155-157
MatchPlus ==
    /\ Entering /\ Top.j # Len(call.p)
    /\ NextIsQuant(call.p, Top.j) /\ PyIndex(call.p, Top.j + 1) # Star
    /\ MatchStep(IF FirstMatch(call.s, Top.i, call.p, Top.j)
                 THEN Recurse("plus_more", PlusMoreCall(Top.i, Top.j))
                 ELSE Return(FALSE))

\* line 157, after _match(s, i+1, p, j) returned
MatchPlusMoreRet ==
    /\ Returned("plus_more")
    /\ IF ret[1] THEN Return(TRUE)
       ELSE Recurse("plus_skip", PlusSkipCall(Top.i, Top.j))
    /\ UNCHANGED <<call, done, prev>> /\ Frozen

\* line 157, after _match(s, i+1, p, j+2) returned
MatchPlusSkipRet ==
    /\ Returned("plus_skip")
    /\ Return(ret[1])
    /\ UNCHANGED <<call, done, prev>> /\ Frozen

\* lines 159-161
MatchPlain ==
    /\ Entering /\ Top.j # Len(call.p)
    /\ ~NextIsQuant(call.p, Top.j)
    /\ MatchStep(IF FirstMatch(call.s, Top.i, call.p, Top.j)
                 THEN Recurse("plain", PlainCall(Top.i, Top.j))
                 ELSE Return(FALSE))

\* line 160, after _match(s, i+1, p, j+1) returned
MatchPlainRet ==
    /\ Returned("plain")
    /\ Return(ret[1])
    /\ UNCHANGED <<call, done, prev>> /\ Frozen

\* line 137: check_string returns what the outermost _match returned
CheckStringReturn ==
    /\ call.active /\ stack = <<>> /\ ret # <<>>
    /\ done' = [valid |-> TRUE, fsm |-> call.fsm, p |-> fsms[call.fsm].regex_expr,
                s |-> call.s, result |-> ret[1]]
    /\ prev' = done
    /\ call' = NoCall
    /\ ret' = <<>>
    /\ UNCHANGED <<stack, raised>> /\ Frozen

Match ==
    \/ MatchBase
    \/ MatchStar
    \/ MatchStarZeroRet
    \/ MatchStarMoreRet
    \/ MatchPlus
    \/ MatchPlusMoreRet
    \/ MatchPlusSkipRet
    \/ MatchPlain
    \/ MatchPlainRet
    \/ CheckStringReturn

-----------------------------------------------------------------------------
(* Specifications *)

\* the module just imported: the class-level StartState exists, nothing else
Init ==
    /\ objs = <<StartState>>
    /\ fsms = <<>>
    /\ built = <<>>
    /\ lastCtor = [arg |-> <<>>, before |-> 0]
    /\ raised = NoError
    /\ call = NoCall
    /\ stack = <<>>
    /\ ret = <<>>
    /\ done = NoResult
    /\ prev = NoResult
    /\ nctor = 0
    /\ ncalls = 0

SessConstruct == nctor < MaxCtor /\ \E p \in SessPatterns : Construct(p)
SessCheckString ==
    ncalls < MaxCalls /\ \E f \in 1..Len(fsms), s \in SessInputs : CheckString(f, s)

Next == SessConstruct \/ SessCheckString \/ Match

Spec == Init /\ [][Next]_vars

\* constructor calls only, over patterns with unsupported tokens.  The calls
\* before the last one only fill the shared start state and shift the ids,
\* so they draw from PriorPatterns; the last call draws from BuildPatterns.
BuildConstruct ==
    /\ nctor < MaxBuilds
    /\ \E p \in (IF nctor + 1 < MaxBuilds THEN PriorPatterns ELSE BuildPatterns) :
           Construct(p)

BuildSpec == Init /\ [][BuildConstruct]_vars

\* one RegexFSM built from any pattern, check_string called on any input
MatchInit ==
    \E p \in MatchPatterns, s \in MatchInputs :
        LET r == RegexFSMInit(<<StartState>>, p)
        IN  /\ objs = r.objs
            /\ fsms = <<[regex_expr |-> p, curr_state |-> ClassCurrState]>>
            /\ built = <<[before |-> 1, graph |-> GraphOf(r.objs, ClassCurrState)]>>
            /\ lastCtor = [arg |-> p, before |-> 1]
            /\ raised = NoError
            /\ call = [active |-> TRUE, fsm |-> 1, p |-> RegexExprOf(1), s |-> s]
            /\ stack = <<Frame(0, 0)>>
            /\ ret = <<>>
            /\ done = NoResult
            /\ prev = NoResult
            /\ nctor = 1
            /\ ncalls = 1

MatchSpec == MatchInit /\ [][Match]_vars

-----------------------------------------------------------------------------
(* Reference definitions used by the properties *)

IsQuantTok(c) == c \in {Star, Plus}

\* every "*" or "+" is immediately preceded by a literal or "."
WellFormed(p) ==
    \A k \in 1..Len(p) : IsQuantTok(p[k]) => k > 1 /\ ~IsQuantTok(p[k - 1])

\* atom a (a literal or ".") matches the single character c
AtomMatches(a, c) == a = Dot \/ a = c

\* The language of a well-formed pattern, by forward simulation: After(p, s, k, pos)
\* is the set of input offsets that can be reached once the elements starting at
\* token k have consumed input from an offset of pos.
RunEnds(a, s, i) ==
    {e \in i..Len(s) : \A m \in (i + 1)..e : AtomMatches(a, s[m])}

RECURSIVE After(_, _, _, _)
After(p, s, k, pos) ==
    IF k > Len(p) THEN pos
    ELSE IF k < Len(p) /\ p[k + 1] = Star
         THEN After(p, s, k + 2, UNION {RunEnds(p[k], s, i) : i \in pos})
    ELSE IF k < Len(p) /\ p[k + 1] = Plus
         THEN After(p, s, k + 2, UNION {RunEnds(p[k], s, i) \ {i} : i \in pos})
    ELSE After(p, s, k + 1,
               {i + 1 : i \in {x \in pos : x < Len(s) /\ AtomMatches(p[k], s[x + 1])}})

InLanguage(p, s) == Len(s) \in After(p, s, 1, {0})

\* the position of the first token of p that str.isascii() rejects, 0 if none
FirstNonAscii(p) ==
    LET bad == {k \in 1..Len(p) : ~IsAscii(p[k])}
    IN  IF bad = {} THEN 0 ELSE CHOOSE k \in bad : \A m \in bad : k <= m

\* the accepted set as the specification words it: printable, one 7-bit code unit
Printable7Bit(c) == c \in 32..126

\* (len(s) - i) + (len(p) - j) of a frame
Measure(f) == (Len(call.s) - f.i) + (Len(call.p) - f.j)

\* a frame in one of these positions has consumed s[i] against p[j]
ConsumingPcs == {"star_more", "plus_more", "plus_skip", "plain"}

\* quantifier token k of RegexFSM f got the state built for token k - 1 as its
\* only checking_state, and that state is atomic
QuantifiesPrecedingAtom(f, k) ==
    LET id == built[f].before + k
        q == objs[id]
    IN  /\ q.kind = (IF fsms[f].regex_expr[k] = Star THEN "Star" ELSE "Plus")
        /\ q.next_states = <<q.checking_state>>
        /\ k > 1
        /\ q.checking_state = id - 1
        /\ objs[q.checking_state].kind \in {"Ascii", "Dot"}

-----------------------------------------------------------------------------
(* Properties *)

\* C1: for a well-formed pattern, check_string returns true exactly when the
\* whole input is in the language of the pattern (literal, ".", x*, x+,
\* concatenated in order).
C1_FullMatchIffInLanguage ==
    (done.valid /\ WellFormed(done.p)) =>
        (done.result <=> InLanguage(done.p, done.s))

C1_Witness ==
    /\ done.valid /\ WellFormed(done.p) /\ done.result
    /\ Star \in Range(done.p) /\ Len(done.p) = 3 /\ Len(done.s) = 3

\* C2: for a pattern without "*" and "+", check_string returns true exactly
\* when input and pattern have the same length and every pattern character
\* is "." or equal to the input character at its position.
C2_NoQuantifierIsWildcardEquality ==
    (done.valid /\ \A k \in 1..Len(done.p) : ~IsQuantTok(done.p[k])) =>
        (done.result <=>
            /\ Len(done.s) = Len(done.p)
            /\ \A k \in 1..Len(done.p) : done.p[k] = Dot \/ done.p[k] = done.s[k])

C2_Witness ==
    /\ done.valid /\ done.result /\ Len(done.p) = 3
    /\ Range(done.p) \cap {Star, Plus} = {}
    /\ Dot \in Range(done.p) /\ 98 \in Range(done.p)

C4_ConstructionIsFramed ==
    /\ \A f \in 1..Len(fsms) : GraphOf(objs, fsms[f].curr_state) = built[f].graph
    /\ \A f, g \in 1..Len(fsms) :
           f # g => ReachFrom(objs, {fsms[f].curr_state})
                        \cap ReachFrom(objs, {fsms[g].curr_state}) = {}

\* C5: every frame of _match has a measure (len(s) - i) + (len(p) - j) that
\* is not negative and is strictly smaller than its caller's.
C5_MeasureDecreases ==
    \A k \in 1..Len(stack) :
        /\ Measure(stack[k]) >= 0
        /\ k > 1 => Measure(stack[k]) < Measure(stack[k - 1])

C5_Witness ==
    /\ Len(stack) = 4 /\ call.p = <<97, Star, 98>>
    /\ \A k \in 1..3 : stack[k].pc = "star_more"
    /\ stack[4].pc = "star_zero"

\* C6: for every accepted pattern, malformed ones included, every frame has
\* 0 <= i <= len(s) and 0 <= j <= len(p), reads s and p only below their
\* lengths, nothing is raised, and check_string returns a boolean.
C6_MatchNeverErrors ==
    /\ raised = NoError
    /\ \A k \in 1..Len(stack) :
           LET f == stack[k]
           IN  /\ 0 <= f.i /\ f.i <= Len(call.s)
               /\ 0 <= f.j /\ f.j <= Len(call.p)
               /\ f.j # Len(call.p) =>
                      /\ PReads(call.p, f.j) \subseteq 0..(Len(call.p) - 1)
                      /\ SReads(call.s, f.i) \subseteq 0..(Len(call.s) - 1)
    /\ ret # <<>> => ret[1] \in BOOLEAN
    /\ done.valid => done.result \in BOOLEAN

C6_Witness ==
    /\ done.valid /\ Len(done.s) = 3 /\ Len(done.p) = 3
    /\ IsQuantTok(done.p[1]) /\ IsQuantTok(done.p[2]) /\ IsQuantTok(done.p[3])

\* C7: two check_string calls with the same pattern string and the same
\* input return the same result, whichever RegexFSM objects they are made on
\* and whatever was constructed in between.
C7_ResultDependsOnPatternAndInput ==
    (done.valid /\ prev.valid /\ done.p = prev.p /\ done.s = prev.s) =>
        done.result = prev.result

C7_Witness ==
    /\ done.valid /\ prev.valid /\ done.p = prev.p /\ done.s = prev.s
    /\ done.fsm = 3 /\ prev.fsm = 1 /\ fsms[2].regex_expr # done.p
    /\ done.result

\* C8 as stated: in every RegexFSM the constructor returns, each quantifier
\* state quantifies exactly the state of the preceding token, an atomic one.
C8_EveryQuantifierHasAtom ==
    \A f \in 1..Len(fsms) : \A k \in 1..Len(fsms[f].regex_expr) :
        IsQuantTok(fsms[f].regex_expr[k]) => QuantifiesPrecedingAtom(f, k)

\* C8 (amended): in every RegexFSM the constructor returns for a well-formed
\* pattern, each quantifier state has as its checking_state exactly the state
\* built for the preceding token, which is an AsciiState or a DotState.
C8_WellFormedQuantifierHasAtom ==
    \A f \in 1..Len(fsms) : \A k \in 1..Len(fsms[f].regex_expr) :
        (WellFormed(fsms[f].regex_expr) /\ IsQuantTok(fsms[f].regex_expr[k]))
            => QuantifiesPrecedingAtom(f, k)

C8_Witness ==
    /\ Len(fsms) = 2
    /\ fsms[2].regex_expr = <<Dot, Plus, 97>>
    /\ objs[built[2].before + 2].kind = "Plus"

\* C9 as stated: the error of a failed construction carries the first
\* character of the pattern outside the accepted set.
C9_ErrorCarriesCharacter ==
    raised.type = "AttributeError" =>
        /\ FirstNonAscii(lastCtor.arg) > 0
        /\ lastCtor.arg[FirstNonAscii(lastCtor.arg)] \in Range(raised.msg)

\* C9 (amended): a failed construction stops at the first non-ASCII character,
\* scanning left to right, after building the states of the tokens before it;
\* its error holds the fixed message only, not the character.
C9_ErrorAtFirstNonAscii ==
    raised.type = "AttributeError" =>
        /\ Len(objs) - lastCtor.before = FirstNonAscii(lastCtor.arg) - 1
        /\ \A k \in 1..Len(raised.msg) : IsAscii(raised.msg[k])

C9_Witness ==
    /\ raised.type = "AttributeError" /\ Len(lastCtor.arg) = 3
    /\ FirstNonAscii(lastCtor.arg) = 2 /\ lastCtor.arg[1] = 7
    /\ ~IsAscii(lastCtor.arg[3])

\* C10 as stated: for every accepted pattern, no frame consumes an input
\* character against a "*" or "+" token, so an input "*" or "+" is consumed
\* only by ".".
C10_NoQuantifierTokenConsumes ==
    \A k \in 1..Len(stack) :
        stack[k].pc \in ConsumingPcs =>
            /\ ~IsQuantTok(PyIndex(call.p, stack[k].j))
            /\ IsQuantTok(PyIndex(call.s, stack[k].i)) =>
                   PyIndex(call.p, stack[k].j) = Dot

\* C10 (amended): the same, for well-formed patterns.
C10_WellFormedNoQuantifierTokenConsumes ==
    WellFormed(call.p) => C10_NoQuantifierTokenConsumes

C10_Witness ==
    /\ WellFormed(call.p) /\ Len(stack) = 3
    /\ stack[2].pc = "star_more"
    /\ PyIndex(call.s, stack[2].i) = Star /\ PyIndex(call.p, stack[2].j) = Dot
====
